---- MODULE Spec2Model ----
(***************************************************************************)
(* Model of crates/runtime/src/model/chat.rs: the provider dispatch        *)
(* (try_to_chat_model, construct_model and the per-provider constructors)  *)
(* and the ChatWrapper decorator (prepare_req, chat_request, chat_stream). *)
(***************************************************************************)
EXTENDS Integers, Sequences, FiniteSets, TLC

VARIABLES
    self,        \* the ChatWrapper under test: public_name, system_prompt, defaults
    req,         \* the request handed to prepare_req
    prepared,    \* Option: the request prepare_req returned
    component,   \* the spicepod Model handed to the dispatch
    params,      \* the secret parameter map handed to the dispatch
    constructed, \* Option: the Result construct_model returned
    loaded,      \* Option: the Result try_to_chat_model returned
    calls,       \* the chat_request and chat_stream calls made on the wrapper
    metrics      \* per call, the records handle_metrics was given, in order

prepVars == <<self, req, prepared>>
loadVars == <<component, params, constructed, loaded>>
callVars == <<calls, metrics>>
vars == <<self, req, prepared, component, params, constructed, loaded, calls, metrics>>

----------------------------------------------------------------------------
(* Option<T>: None is the empty tuple, Some(v) the one-element tuple.      *)

None == <<>>
Some(v) == <<v>>
IsSome(o) == o # <<>>
Unwrap(o) == o[1]
\* Option::or_else
OrElse(o, alt) == IF IsSome(o) THEN o ELSE alt

----------------------------------------------------------------------------
(* serde_json::Value, over a small universe of JSON documents. k is the    *)
(* JSON kind of the document and v its text.                               *)

JTrue   == [k |-> "bool", v |-> "true"]
JFalse  == [k |-> "bool", v |-> "false"]
JNum1   == [k |-> "num",  v |-> "1"]
JStr    == [k |-> "str",  v |-> "auto"]
JArr    == [k |-> "arr",  v |-> "[]"]
\* {"include_usage": true} and {"include_usage": false}
JOptsT  == [k |-> "opts", v |-> "true"]
JOptsF  == [k |-> "opts", v |-> "false"]
\* {"type": "text"}
JObj    == [k |-> "obj",  v |-> "type:text"]

JsonValues == {JTrue, JFalse, JNum1, JStr, JArr, JOptsT, JOptsF, JObj}

\* The 20 keys with_model_defaults matches on.
RecognizedFields ==
    {"frequency_penalty", "logit_bias", "logprobs", "top_logprobs",
     "max_completion_tokens", "store", "metadata", "n", "presence_penalty",
     "response_format", "seed", "stop", "stream", "stream_options",
     "temperature", "top_p", "tools", "tool_choice", "parallel_tool_calls",
     "user"}

\* The JSON kinds that deserialize into each field's type of
\* CreateChatCompletionRequest: f32/u8/u32/i64 fields take the number 1,
\* bool fields the booleans, user a string, stop a string or an array of
\* strings, tools an array, tool_choice the string "auto", logit_bias any
\* object (a map), response_format an object tagged by "type", stream_options
\* an object holding include_usage, metadata (a serde_json::Value) anything.
FieldKinds(f) ==
    CASE f \in {"frequency_penalty", "presence_penalty", "temperature", "top_p",
                "top_logprobs", "max_completion_tokens", "n", "seed"} -> {"num"}
      [] f \in {"logprobs", "store", "stream", "parallel_tool_calls"} -> {"bool"}
      [] f = "user" -> {"str"}
      [] f = "stop" -> {"str", "arr"}
      [] f = "tools" -> {"arr"}
      [] f = "tool_choice" -> {"str"}
      [] f = "logit_bias" -> {"opts", "obj"}
      [] f = "response_format" -> {"obj"}
      [] f = "stream_options" -> {"opts"}
      [] f = "metadata" -> {"bool", "num", "str", "arr", "opts", "obj"}
      [] OTHER -> {}

\* serde_json::from_value(value).ok() into the type of field f: the typed value
\* when the document has a kind the type accepts, None otherwise.
FromValue(f, value) == IF value.k \in FieldKinds(f) THEN Some(value) ELSE None

----------------------------------------------------------------------------
(* ChatWrapper::prepare_req and the three transforms it chains.            *)

SystemMessage(prompt) == [role |-> "system", content |-> prompt]

\* A with_system_prompt that overwrites a leading system message instead of
\* inserting before it.
WithSystemPromptMerging(w, r) ==
    IF IsSome(w.system_prompt)
    THEN IF r.messages # <<>> /\ Head(r.messages).role = "system"
         THEN [r EXCEPT !.messages[1] = SystemMessage(Unwrap(w.system_prompt))]
         ELSE [r EXCEPT !.messages = <<SystemMessage(Unwrap(w.system_prompt))>> \o @]
    ELSE r

\* with_system_prompt: insert(0, System(prompt)) when a prompt is configured.
\* build() fails only when content was not supplied, and it always is.
WithSystemPrompt(w, r) ==
    IF IsSome(w.system_prompt)
    THEN [r EXCEPT !.messages = <<SystemMessage(Unwrap(w.system_prompt))>> \o @]
    ELSE r

\* A match arm in which the default wins over the caller's value.
ApplyDefaultOverriding(fields, d) ==
    IF d.key \in RecognizedFields
    THEN [fields EXCEPT ![d.key] = OrElse(FromValue(d.key, d.value), @)]
    ELSE fields

\* One iteration of the loop of with_model_defaults: one match arm.
ApplyDefault(fields, d) ==
    IF d.key \in RecognizedFields
    THEN [fields EXCEPT ![d.key] = OrElse(@, FromValue(d.key, d.value))]
    ELSE fields

RECURSIVE ApplyDefaults(_, _)
ApplyDefaults(fields, defaults) ==
    IF defaults = <<>> THEN fields
    ELSE ApplyDefaults(ApplyDefault(fields, Head(defaults)), Tail(defaults))

WithModelDefaults(w, r) == [r EXCEPT !.fields = ApplyDefaults(@, w.defaults)]

\* A with_stream_usage that forces include_usage whatever the stream flag is.
WithStreamUsageAlways(r) ==
    [r EXCEPT !.fields["stream_options"] =
        IF IsSome(@) THEN Some([Unwrap(@) EXCEPT !.v = "true"])
        ELSE Some(JOptsT)]

\* with_stream_usage: when stream is Some(true), stream_options becomes
\* Some(opts with include_usage = true).
WithStreamUsage(r) ==
    IF r.fields["stream"] = Some(JTrue)
    THEN [r EXCEPT !.fields["stream_options"] =
              IF IsSome(@) THEN Some([Unwrap(@) EXCEPT !.v = "true"])
              ELSE Some(JOptsT)]
    ELSE r

\* A prepare_req that enforces streaming usage before the defaults are backfilled.
PrepareReqUsageFirst(w, r) ==
    WithModelDefaults(w, WithStreamUsage(WithSystemPrompt(w, r)))

PrepareReq(w, r) == WithStreamUsage(WithModelDefaults(w, WithSystemPrompt(w, r)))

----------------------------------------------------------------------------
(* Inputs of prepare_req.                                                  *)

MaxMsgs == 3
MaxDefaults == 2

SeqsUpTo(S, n) == UNION {[1..k -> S] : k \in 0..n}

Prompts == {"P", ""}
MsgValues ==
    {[role |-> "system", content |-> "P"],
     [role |-> "user", content |-> "hi"],
     [role |-> "assistant", content |-> "ok"]}

NoFields == [f \in RecognizedFields |-> None]
Request(msgs, fields) == [model |-> "gpt", messages |-> msgs, fields |-> fields]
Wrapper(prompt, defaults) ==
    [public_name |-> "public", system_prompt |-> prompt, defaults |-> defaults]
Default(key, value) == [key |-> key, value |-> value]

\* The values a caller gives field f: both booleans for stream, both settings of
\* include_usage for stream_options, and for any other field one value of its
\* type that no default holds.
CallerValues(f) ==
    CASE f = "stream" -> {JTrue, JFalse}
      [] f = "stream_options" -> {JOptsT, JOptsF}
      [] OTHER -> {[k |-> CHOOSE kind \in FieldKinds(f) : TRUE, v |-> "caller"]}

\* Requests in which the caller set at most one field, to a value of its type.
OneFieldRequests ==
    {Request(<<[role |-> "user", content |-> "hi"]>>, NoFields)} \cup
    {Request(<<[role |-> "user", content |-> "hi"]>>, [NoFields EXCEPT ![x[1]] = Some(x[2])]) :
        x \in UNION {{<<f, j>> : j \in CallerValues(f)} : f \in RecognizedFields}}

\* Requests in which the caller set any of stream and stream_options.
StreamRequests ==
    {Request(<<[role |-> "user", content |-> "hi"]>>,
             [NoFields EXCEPT !["stream"] = s, !["stream_options"] = o]) :
        <<s, o>> \in {None, Some(JTrue), Some(JFalse)} \X {None, Some(JOptsT), Some(JOptsF)}}

DefaultKeys == RecognizedFields \cup {"unknown_key"}

\* The documents configured as the default of key: for every recognized key
\* one that deserializes into the field's type and, where the type refuses any,
\* one that does not; for stream and stream_options both usable settings.
DefaultValues(key) ==
    CASE key = "stream" -> {JTrue, JFalse, JNum1}
      [] key = "stream_options" -> {JOptsT, JOptsF, JObj}
      [] key = "metadata" -> {JTrue, JObj}
      [] key = "unknown_key" -> {JTrue}
      [] key \in {"logprobs", "store", "parallel_tool_calls"} -> {JTrue, JNum1}
      [] key \in {"user", "tool_choice"} -> {JStr, JNum1}
      [] key \in {"stop", "tools"} -> {JArr, JNum1}
      [] key = "logit_bias" -> {JOptsF, JArr}
      [] key = "response_format" -> {JObj, JOptsF}
      [] OTHER -> {JNum1, JTrue}

AllDefaults == UNION {{Default(k, j) : j \in DefaultValues(k)} : k \in DefaultKeys}

StreamDefaults ==
    {Default(k, j) : <<k, j>> \in {"stream", "stream_options", "unknown_key"}
                                  \X {JTrue, JFalse, JOptsT, JOptsF, JNum1}}

----------------------------------------------------------------------------
(* prepare_req applied to one request.                                     *)

Prepare ==
    /\ prepared = None
    /\ prepared' = Some(PrepareReq(self, req))
    /\ UNCHANGED <<self, req, loadVars, callVars>>

NextPrepare == Prepare

\* No model is being loaded.
LoadIdle ==
    /\ component = None
    /\ params = None
    /\ constructed = None
    /\ loaded = None

\* No call is made on the wrapper.
CallsIdle ==
    /\ calls = None
    /\ metrics = None

\* System-prompt injection over every message sequence up to MaxMsgs.
InitInject ==
    /\ self \in {Wrapper(p, d) : <<p, d>> \in
            ({None} \cup {Some(x) : x \in Prompts})
            \X {<<>>, <<Default("stream", JTrue)>>}}
    /\ req \in {Request(m, f) : <<m, f>> \in
            SeqsUpTo(MsgValues, MaxMsgs)
            \X {NoFields, [NoFields EXCEPT !["stream"] = Some(JTrue)]}}
    /\ prepared = None
    /\ LoadIdle
    /\ CallsIdle

\* Default backfill over every default list up to MaxDefaults.
InitDefaults ==
    /\ self \in {Wrapper(None, d) : d \in
            SeqsUpTo(AllDefaults, MaxDefaults)}
    /\ req \in OneFieldRequests
    /\ prepared = None
    /\ LoadIdle
    /\ CallsIdle

\* Streaming-usage enforcement over caller and default stream settings.
InitUsage ==
    /\ self \in {Wrapper(p, d) : <<p, d>> \in
            {None, Some("P")} \X SeqsUpTo(StreamDefaults, MaxDefaults)}
    /\ req \in StreamRequests
    /\ prepared = None
    /\ LoadIdle
    /\ CallsIdle

SpecInject == InitInject /\ [][NextPrepare]_vars
SpecDefaults == InitDefaults /\ [][NextPrepare]_vars
SpecUsage == InitUsage /\ [][NextPrepare]_vars

----------------------------------------------------------------------------
(* Claims about prepare_req.                                               *)

\* C1: with a configured system prompt, message 1 of the prepared request is a
\* system message carrying exactly the prompt and every message of the caller
\* follows it in the caller's order, one position later, so the length grows
\* by exactly one; with no prompt configured the messages are unchanged.
C1_SystemPromptInserted ==
    IsSome(prepared) =>
        LET p == Unwrap(prepared).messages
            m == req.messages
        IN  IF IsSome(self.system_prompt)
            THEN /\ Len(p) = Len(m) + 1
                 /\ p[1] = [role |-> "system", content |-> Unwrap(self.system_prompt)]
                 /\ \A i \in 1..Len(m) : p[i + 1] = m[i]
            ELSE p = m

\* A prompt was injected in front of a request that already led with a system
\* message and held at least one more message.
C1_Witness ==
    /\ IsSome(prepared)
    /\ IsSome(self.system_prompt)
    /\ Len(req.messages) >= 2
    /\ req.messages[1].role = "system"
    /\ Len(Unwrap(prepared).messages) = Len(req.messages) + 1

\* The positions of the default list whose key is f.
DefaultsFor(f) == {i \in DOMAIN self.defaults : self.defaults[i].key = f}
\* Those whose value deserializes into the type of f.
UsableDefaultsFor(f) ==
    {i \in DefaultsFor(f) : self.defaults[i].value.k \in FieldKinds(f)}
Min(S) == CHOOSE x \in S : \A y \in S : x <= y

\* What backfill alone leaves in field f: the caller's value when set, else the
\* value of the first default named f that deserializes, else nothing.
Backfilled(f) ==
    IF IsSome(req.fields[f]) THEN req.fields[f]
    ELSE IF UsableDefaultsFor(f) = {} THEN None
    ELSE Some(self.defaults[Min(UsableDefaultsFor(f))].value)

\* C2 as stated: for each recognized name, a field the caller left unset equals
\* every configured default of that name after preparation, and a field the
\* caller set still holds the caller's value.
C2_Original ==
    IsSome(prepared) =>
        \A f \in RecognizedFields :
            IF IsSome(req.fields[f])
            THEN Unwrap(prepared).fields[f] = req.fields[f]
            ELSE \A i \in DefaultsFor(f) :
                    Unwrap(prepared).fields[f] = Some(self.defaults[i].value)

\* C2 amended: for each recognized name other than stream_options of a request
\* that streams, a field the caller set keeps the caller's value and a field
\* the caller left unset takes the value of the first default of that name that
\* deserializes into the field's type, staying unset when there is none; the
\* stream_options of a request that streams is that value with include_usage
\* forced to true; defaults of unrecognized names change nothing.
C2_DefaultsBackfilled ==
    IsSome(prepared) =>
        LET p == Unwrap(prepared)
        IN  /\ p.messages = req.messages
            /\ p.model = req.model
            /\ DOMAIN p.fields = RecognizedFields
            /\ \A f \in RecognizedFields :
                  IF f = "stream_options" /\ Backfilled("stream") = Some(JTrue)
                  THEN p.fields[f] = Some(JOptsT)
                  ELSE p.fields[f] = Backfilled(f)

\* A default was backfilled into a field the caller left unset while the caller's
\* own field was kept, past an unusable default and one of an unknown name.
C2_Witness ==
    /\ IsSome(prepared)
    /\ Len(self.defaults) = 2
    /\ \E f \in RecognizedFields :
          /\ req.fields[f] = None
          /\ DefaultsFor(f) = {1, 2}
          /\ UsableDefaultsFor(f) = {2}
          /\ Unwrap(prepared).fields[f] = Some(self.defaults[2].value)
    /\ \E g \in RecognizedFields :
          /\ IsSome(req.fields[g])
          /\ Unwrap(prepared).fields[g] = req.fields[g]

\* C3: a prepared request whose stream flag is true has
\* stream_options.include_usage = true, whatever the caller and the defaults
\* put in stream and stream_options.
C3_StreamUsageForced ==
    IsSome(prepared) =>
        LET p == Unwrap(prepared)
        IN  /\ p.fields["stream"] = Backfilled("stream")
            /\ p.fields["stream"] = Some(JTrue) =>
                  /\ IsSome(p.fields["stream_options"])
                  /\ Unwrap(p.fields["stream_options"]).v = "true"

\* Streaming was switched on by a default alone, next to a stream_options default
\* that turns usage off, and the prepared request still includes usage.
C3_Witness ==
    /\ IsSome(prepared)
    /\ req.fields["stream"] = None
    /\ req.fields["stream_options"] = None
    /\ \E i, j \in DOMAIN self.defaults :
          /\ self.defaults[i] = Default("stream", JTrue)
          /\ self.defaults[j] = Default("stream_options", JOptsF)
    /\ Unwrap(prepared).fields["stream_options"] = Some(JOptsT)

----------------------------------------------------------------------------
(* Provider dispatch: try_to_chat_model, construct_model and the           *)
(* per-provider constructors. Parameters that no branch reads and that are *)
(* only handed on to an adapter constructor (model_type, hf_token,          *)
(* openai_api_key, openai_org_id, openai_project_id, azure_api_version,     *)
(* azure_deployment_name, chat_template, the tokenizer and config paths)    *)
(* are left out of the parameter map and of the adapters.                   *)

\* Result<Box<dyn Chat>, LlmError>. call is the adapter constructor that was
\* invoked, if any, whether or not it succeeded.
NoValue == [kind |-> "none"]
Ok(call, value) ==
    [ok |-> TRUE, err |-> "", param |-> "", call |-> call, value |-> value]
Err(kind, param, call) ==
    [ok |-> FALSE, err |-> kind, param |-> param, call |-> call, value |-> NoValue]

\* An adapter, named by the constructor that built it and what it was given.
Adapter(fn, id, path) == [kind |-> "adapter", fn |-> fn, id |-> id, path |-> path]

\* The result of a constructor of the llms crate that can fail; AdapterError
\* stands for whichever LlmError it returns.
Fallible(extOk, adapter) ==
    IF extOk THEN Ok(Some(adapter), adapter) ELSE Err("AdapterError", "", Some(adapter))

\* extract_secret!(params, key)
ExtractSecret(ps, key) == ps[key]

\* str::parse::<f64>() over the strings the model supplies: Rust reads "NaN"
\* as the float NaN, and anything that is not a float literal is an error.
\* A float is its class, its sign and its magnitude in tenths.
Float(cls, neg, tenths) == [cls |-> cls, neg |-> neg, tenths |-> tenths]
ParseF64(str) ==
    CASE str = "0.7" -> Some(Float("finite", FALSE, 7))
      [] str = "0"   -> Some(Float("finite", FALSE, 0))
      [] str = "-1"  -> Some(Float("finite", TRUE, 10))
      [] str = "NaN" -> Some(Float("nan", FALSE, 0))
      [] OTHER -> None

\* temperature < 0.0: every comparison with NaN is false.
LessThanZero(x) == x.cls = "finite" /\ x.neg /\ x.tenths > 0

\* str::parse::<usize>() over the strings the model supplies.
ParseUsize(str) ==
    CASE str = "0" -> Some(0)
      [] str = "3" -> Some(3)
      [] OTHER -> None

\* SpiceToolsOptions::from_str, which has no error condition, and
\* SpiceToolsOptions::can_use_tools.
ParseToolsOptions(str) == [opts |-> str]
CanUseTools(opts) == opts.opts # "disabled"

\* Path::extension(): the part of the file name after its last dot, when the
\* file name has a dot that is not its first character. A path is the
\* sequence of its characters.
LastIndexOf(p, c) ==
    IF \E i \in DOMAIN p : p[i] = c
    THEN CHOOSE i \in DOMAIN p : p[i] = c /\ \A j \in DOMAIN p : p[j] = c => j <= i
    ELSE 0
FileName(p) == SubSeq(p, LastIndexOf(p, "/") + 1, Len(p))
Extension(p) ==
    LET name == FileName(p)
        dot == LastIndexOf(name, ".")
    IN  IF dot <= 1 THEN None ELSE Some(SubSeq(name, dot + 1, Len(name)))

\* u8::to_ascii_lowercase over the letters the model's paths hold.
ToAsciiLowercase(c) ==
    CASE c = "G" -> "g" [] c = "U" -> "u" [] c = "F" -> "f"
      [] c = "Q" -> "q" [] c = "W" -> "w" [] OTHER -> c
EqIgnoreAsciiCase(a, b) ==
    /\ Len(a) = Len(b)
    /\ \A i \in DOMAIN a : ToAsciiLowercase(a[i]) = ToAsciiLowercase(b[i])

\* An extension test that tells upper case from lower case.
IsGgufCaseSensitive(p) == Extension(p) = Some(<<"g", "g", "u", "f">>)

IsGguf(p) ==
    /\ IsSome(Extension(p))
    /\ EqIgnoreAsciiCase(Unwrap(Extension(p)), <<"g", "g", "u", "f">>)

\* Iterator::find_map: the first element of the list that satisfies the test.
RECURSIVE FindGguf(_)
FindGguf(paths) ==
    IF paths = <<>> THEN None
    ELSE IF IsGguf(Head(paths)) THEN Some(Head(paths))
    ELSE FindGguf(Tail(paths))

Xai(model_id, ps) ==
    IF ~IsSome(ExtractSecret(ps, "xai_api_key"))
    THEN Err("FailedToLoadModel", "", None)
    ELSE LET a == Adapter("Xai::new", model_id, None) IN Ok(Some(a), a)

Anthropic(model_id, ps, extOk) ==
    IF /\ ~IsSome(ExtractSecret(ps, "anthropic_api_key"))
       /\ ~IsSome(ExtractSecret(ps, "anthropic_auth_token"))
    THEN Err("FailedToLoadModel", "", None)
    ELSE LET a == Adapter("Anthropic::new", model_id, None)
         IN  IF extOk THEN Ok(Some(a), a) ELSE Err("FailedToLoadModel", "", Some(a))

Huggingface(model_id, comp, ps, extOk) ==
    IF ~IsSome(model_id)
    THEN Err("FailedToLoadModel", "", None)
    ELSE LET gguf_path == FindGguf(comp.weights)
         IN  IF IsSome(gguf_path)
             THEN Fallible(extOk, Adapter("create_hf_w_gguf", model_id, gguf_path))
             ELSE Fallible(extOk, Adapter("create_hf_model", model_id, None))

Openai(model_id, ps) ==
    LET temperature_str == ExtractSecret(ps, "openai_temperature")
        a == Adapter("new_openai_client",
                     IF IsSome(model_id) THEN model_id ELSE Some("DEFAULT_LLM_MODEL"),
                     None)
    IN  IF IsSome(temperature_str)
        THEN LET parsed == ParseF64(Unwrap(temperature_str))
             IN  IF IsSome(parsed)
                 THEN IF LessThanZero(Unwrap(parsed))
                      THEN Err("InvalidParamError", "openai_temperature", None)
                      ELSE Ok(Some(a), a)
                 ELSE Err("InvalidParamError", "openai_temperature", None)
        ELSE Ok(Some(a), a)

\* An azure that does not refuse a key and a token given together.
AzureAllowingBoth(model_id, model_name, ps) ==
    IF /\ IsSome(model_id)
       /\ IsSome(ExtractSecret(ps, "endpoint"))
       /\ \/ IsSome(ExtractSecret(ps, "azure_api_key"))
          \/ IsSome(ExtractSecret(ps, "azure_entra_token"))
    THEN LET a == Adapter("new_azure_client", model_id, None) IN Ok(Some(a), a)
    ELSE Err("FailedToLoadModel", "", None)

Azure(model_id, model_name, ps) ==
    LET api_base == ExtractSecret(ps, "endpoint")
        api_key == ExtractSecret(ps, "azure_api_key")
        entra_token == ExtractSecret(ps, "azure_entra_token")
        a == Adapter("new_azure_client", model_id, None)
    IN  IF ~IsSome(model_id) THEN Err("FailedToLoadModel", "", None)
        ELSE IF ~IsSome(api_base) THEN Err("FailedToLoadModel", "", None)
        ELSE IF IsSome(api_key) /\ IsSome(entra_token)
             THEN Err("FailedToLoadModel", "", None)
        ELSE IF ~IsSome(api_key) /\ ~IsSome(entra_token)
             THEN Err("FailedToLoadModel", "", None)
        ELSE Ok(Some(a), a)

File(comp, ps, extOk) ==
    IF comp.weights = <<>>
    THEN Err("FailedToLoadModel", "", None)
    ELSE Fallible(extOk, Adapter("create_local_model", None, Some(Head(comp.weights))))

\* construct_model from line 118 on: model is what the provider's constructor
\* returned.
WrapModel(model, comp) ==
    IF ~model.ok THEN model
    ELSE Ok(model.call,
            [kind |-> "ChatWrapper",
             chat |-> model.value,
             public_name |-> comp.name,
             system_prompt |-> comp.system_prompt,
             defaults |-> comp.overrides])

ConstructModelFn(comp, ps, extOk) ==
    IF ~IsSome(comp.source)
    THEN Err("UnknownModelSource", "", None)
    ELSE LET prefix == Unwrap(comp.source)
         IN  WrapModel(
                CASE prefix = "HuggingFace" -> Huggingface(comp.model_id, comp, ps, extOk)
                  [] prefix = "File" -> File(comp, ps, extOk)
                  [] prefix = "Anthropic" -> Anthropic(comp.model_id, ps, extOk)
                  [] prefix = "Azure" -> Azure(comp.model_id, comp.name, ps)
                  [] prefix = "Xai" -> Xai(comp.model_id, ps)
                  [] prefix = "OpenAi" -> Openai(comp.model_id, ps)
                  [] prefix = "SpiceAI" -> Err("UnsupportedTaskForModel", "", None),
                comp)

\* A tool option read from spice_tools before tools.
SpiceToolOptSwapped(ps) ==
    LET raw == OrElse(ExtractSecret(ps, "spice_tools"), ExtractSecret(ps, "tools"))
    IN  IF IsSome(raw) THEN Some(ParseToolsOptions(Unwrap(raw))) ELSE None

\* extract_secret!(params, "tools").or(extract_secret!(params, "spice_tools")).map(str::parse)
SpiceToolOpt(ps) ==
    LET raw == OrElse(ExtractSecret(ps, "tools"), ExtractSecret(ps, "spice_tools"))
    IN  IF IsSome(raw) THEN Some(ParseToolsOptions(Unwrap(raw))) ELSE None

\* A recursion limit whose parse error is dropped instead of returned.
SpiceRecursionLimitLenient(ps) ==
    LET limit_str == ExtractSecret(ps, "tool_recursion_limit")
    IN  IF IsSome(limit_str) THEN Ok(None, ParseUsize(Unwrap(limit_str))) ELSE Ok(None, None)

\* The Result<Option<usize>, LlmError> that the parse of tool_recursion_limit yields.
SpiceRecursionLimit(ps) ==
    LET limit_str == ExtractSecret(ps, "tool_recursion_limit")
    IN  IF ~IsSome(limit_str) THEN Ok(None, None)
        ELSE IF IsSome(ParseUsize(Unwrap(limit_str)))
             THEN Ok(None, ParseUsize(Unwrap(limit_str)))
        ELSE Err("FailedToLoadModel", "", None)

\* try_to_chat_model from line 66 on: model is what construct_model returned.
TryToChatModelFn(model, ps) ==
    LET spice_tool_opt == SpiceToolOpt(ps)
        spice_recursion_limit == SpiceRecursionLimit(ps)
    IN  IF ~model.ok THEN model
        ELSE IF ~spice_recursion_limit.ok
             THEN Err(spice_recursion_limit.err, "", model.call)
        ELSE IF IsSome(spice_tool_opt) /\ CanUseTools(Unwrap(spice_tool_opt))
             THEN Ok(model.call,
                     [kind |-> "ToolUsingChat",
                      inner |-> model.value,
                      opts |-> Unwrap(spice_tool_opt),
                      recursion_limit |-> spice_recursion_limit.value])
        ELSE model

----------------------------------------------------------------------------
(* Inputs of the dispatch.                                                 *)

MaxFiles == 2
MaxParams == 3

ParamKeys ==
    {"tools", "spice_tools", "tool_recursion_limit", "xai_api_key", "endpoint",
     "anthropic_api_key", "anthropic_auth_token", "openai_temperature",
     "azure_api_key", "azure_entra_token"}

ParamValues(key) ==
    CASE key \in {"tools", "spice_tools"} -> {"auto", "disabled"}
      [] key = "tool_recursion_limit" -> {"3", "-1", "abc"}
      [] key = "openai_temperature" -> {"0.7", "-1", "abc", "NaN"}
      [] OTHER -> {"secret"}

AllParamValues == UNION {ParamValues(k) : k \in ParamKeys}

\* The parameter maps that hold at most MaxParams parameters.
ParamMaps ==
    UNION {{[k \in ParamKeys |-> IF k \in K THEN Some(f[k]) ELSE None] :
                f \in {g \in [K -> AllParamValues] : \A k \in K : g[k] \in ParamValues(k)}} :
           K \in {S \in SUBSET ParamKeys : Cardinality(S) <= MaxParams}}

\* "model.Q4.gguf", "W.GGUF", "w.bin", ".gguf" and "d.gguf/w"
PathQ4 == <<"m", "o", "d", "e", "l", ".", "Q", "4", ".", "g", "g", "u", "f">>
PathUpper == <<"W", ".", "G", "G", "U", "F">>
PathBin == <<"w", ".", "b", "i", "n">>
PathHidden == <<".", "g", "g", "u", "f">>
PathDir == <<"d", ".", "g", "g", "u", "f", "/", "w">>
Paths == {PathQ4, PathUpper, PathBin, PathHidden, PathDir}

ModelSources ==
    {"HuggingFace", "File", "Anthropic", "Azure", "Xai", "OpenAi", "SpiceAI"}

Component(src, id, w) ==
    [name |-> "public", source |-> src, model_id |-> id, weights |-> w,
     system_prompt |-> Some("P"), overrides |-> <<Default("temperature", JNum1)>>]

\* Every weights list up to MaxFiles for the sources that read the weights, and
\* an empty and a one-file list for the others.
Components ==
    {Component(Some(src), id, w) :
        <<src, id, w>> \in {"HuggingFace", "File"} \X {None, Some("m1")}
                            \X SeqsUpTo(Paths, MaxFiles)} \cup
    {Component(src, id, w) :
        <<src, id, w>> \in ({None} \cup {Some(x) : x \in ModelSources \ {"HuggingFace", "File"}})
                            \X {None, Some("m1")} \X {<<>>, <<PathBin>>}}

----------------------------------------------------------------------------
(* The dispatch applied to one model.                                      *)

PrepareIdle ==
    /\ self = None
    /\ req = None
    /\ prepared = None

\* try_to_chat_model, with the Result of the construct_model it calls first.
TryToChatModel ==
    /\ constructed = None
    /\ loaded = None
    /\ \E extOk \in BOOLEAN :
          /\ constructed' = Some(ConstructModelFn(component, params, extOk))
          /\ loaded' = Some(TryToChatModelFn(Unwrap(constructed'), params))
    /\ UNCHANGED <<component, params, prepVars, callVars>>

NextLoad == TryToChatModel

InitLoad ==
    /\ component \in Components
    /\ params \in ParamMaps
    /\ constructed = None
    /\ loaded = None
    /\ PrepareIdle
    /\ CallsIdle

SpecLoad == InitLoad /\ [][NextLoad]_vars

----------------------------------------------------------------------------
(* Claims about the dispatch.                                              *)

SourceIs(src) == component.source = Some(src)
Present(key) == IsSome(params[key])

\* C5: construct_model for an Azure source succeeds exactly when a model id
\* and the endpoint are present and exactly one of azure_api_key and
\* azure_entra_token is; otherwise it returns FailedToLoadModel and no adapter
\* constructor was invoked.
C5_AzureContract ==
    (IsSome(constructed) /\ SourceIs("Azure")) =>
        LET r == Unwrap(constructed)
            valid == /\ IsSome(component.model_id)
                     /\ Present("endpoint")
                     /\ Present("azure_api_key") # Present("azure_entra_token")
        IN  /\ r.ok <=> valid
            /\ r.ok => /\ r.value.kind = "ChatWrapper"
                       /\ r.value.chat.fn = "new_azure_client"
            /\ ~r.ok => /\ r.err = "FailedToLoadModel"
                        /\ r.call = None
                        /\ r.value = NoValue

\* An Azure model was constructed from an entra token alone.
C5_Witness ==
    /\ IsSome(constructed)
    /\ SourceIs("Azure")
    /\ Present("azure_entra_token")
    /\ ~Present("azure_api_key")
    /\ Unwrap(constructed).ok

\* The spellings of non-negative numbers among the temperature strings.
NonNegativeNumberStrings == {"0", "0.7"}

\* C6: construct_model for an OpenAI source fails with
\* InvalidParamError{param: "openai_temperature"} when openai_temperature is
\* present and is not the spelling of a non-negative number, and succeeds when it
\* is absent or is one, whatever the other parameters are.
C6_OpenAiTemperature ==
    (IsSome(constructed) /\ SourceIs("OpenAi")) =>
        LET r == Unwrap(constructed)
        IN  IF /\ Present("openai_temperature")
               /\ Unwrap(params["openai_temperature"]) \notin NonNegativeNumberStrings
            THEN ~r.ok /\ r.err = "InvalidParamError" /\ r.param = "openai_temperature"
            ELSE r.ok

\* The paths of the model whose extension is gguf in some letter case:
\* "model.Q4.gguf" and "W.GGUF", and not "w.bin", ".gguf" or "d.gguf/w".
GgufPaths == {PathQ4, PathUpper}

\* C7: construct_model for a HuggingFace source with a model id invokes the
\* quantized loader with the first weights path, in list order, whose extension
\* is gguf ignoring ASCII case, and the generic hub loader when no weights path
\* has that extension; with no model id it fails with FailedToLoadModel and
\* invokes neither.
C7_HuggingfaceRouting ==
    (IsSome(constructed) /\ SourceIs("HuggingFace")) =>
        LET r == Unwrap(constructed)
            w == component.weights
            hits == {i \in DOMAIN w : w[i] \in GgufPaths}
        IN  IF ~IsSome(component.model_id)
            THEN ~r.ok /\ r.err = "FailedToLoadModel" /\ r.call = None
            ELSE IF hits # {}
            THEN r.call = Some(Adapter("create_hf_w_gguf", component.model_id,
                                       Some(w[Min(hits)])))
            ELSE r.call = Some(Adapter("create_hf_model", component.model_id, None))

\* The quantized loader was handed the first of two different gguf paths, one
\* of them in upper case.
C7_Witness ==
    /\ IsSome(constructed)
    /\ SourceIs("HuggingFace")
    /\ component.weights = <<PathUpper, PathQ4>>
    /\ Unwrap(constructed).call =
          Some(Adapter("create_hf_w_gguf", component.model_id, Some(PathUpper)))

\* The spellings of non-negative integers among the recursion-limit strings.
NonNegativeIntegerStrings == {"0", "3"}
BadRecursionLimit ==
    /\ Present("tool_recursion_limit")
    /\ Unwrap(params["tool_recursion_limit"]) \notin NonNegativeIntegerStrings

\* The invalid configurations of C8 other than a bad recursion limit, each with
\* the error it must end in.
C8_ProviderErrors(r) ==
    /\ (SourceIs("Anthropic") /\ ~Present("anthropic_api_key")
            /\ ~Present("anthropic_auth_token")) => r.err = "FailedToLoadModel"
    /\ (SourceIs("Xai") /\ ~Present("xai_api_key")) => r.err = "FailedToLoadModel"
    /\ (SourceIs("File") /\ component.weights = <<>>) => r.err = "FailedToLoadModel"
    /\ SourceIs("SpiceAI") => r.err = "UnsupportedTaskForModel"
    /\ component.source = None => r.err = "UnknownModelSource"

\* A Result is one chat value or one error, never both.
C8_ValueOrError(r) ==
    /\ r.ok => r.err = "" /\ r.value.kind \in {"ChatWrapper", "ToolUsingChat"}
    /\ ~r.ok => r.err # "" /\ r.value = NoValue

\* C8 as stated: every listed invalid configuration ends in its error, a bad
\* tool_recursion_limit ending in FailedToLoadModel for any source. It is read
\* in the claim's favour: the unknown and the unsupported source keep their own
\* errors, and the error of an adapter constructor of the llms crate counts
\* as FailedToLoadModel.
C8_Original ==
    IsSome(loaded) =>
        LET r == Unwrap(loaded)
        IN  /\ C8_ValueOrError(r)
            /\ C8_ProviderErrors(r)
            /\ (BadRecursionLimit /\ IsSome(component.source) /\ ~SourceIs("SpiceAI")) =>
                  r.err \in {"FailedToLoadModel", "AdapterError"}

\* C8 amended: as stated, except that a bad tool_recursion_limit ends in
\* FailedToLoadModel when construct_model succeeded, and in the error of
\* construct_model, unchanged, when it did not.
C8_LoadErrors ==
    IsSome(loaded) =>
        LET r == Unwrap(loaded)
            c == Unwrap(constructed)
        IN  /\ C8_ValueOrError(r)
            /\ C8_ProviderErrors(r)
            /\ BadRecursionLimit =>
                  /\ ~r.ok
                  /\ c.ok => r.err = "FailedToLoadModel"
                  /\ ~c.ok => r = c

\* A model whose construction succeeded was refused for its recursion limit.
C8_Witness ==
    /\ IsSome(loaded)
    /\ BadRecursionLimit
    /\ Unwrap(constructed).ok
    /\ Unwrap(loaded).err = "FailedToLoadModel"

\* C9: the tool option is the value of tools when present and of spice_tools
\* otherwise; a successful load returns the ChatWrapper wrapped by the tool
\* orchestrator exactly when that option is present and enables tool use, and
\* the ChatWrapper itself in every other case.
C9_ToolGate ==
    (IsSome(loaded) /\ Unwrap(loaded).ok) =>
        LET r == Unwrap(loaded)
            wrapper == Unwrap(constructed).value
            option == IF Present("tools") THEN params["tools"] ELSE params["spice_tools"]
            enabled == IsSome(option) /\ CanUseTools(ParseToolsOptions(Unwrap(option)))
        IN  /\ wrapper.kind = "ChatWrapper"
            /\ IF enabled
               THEN r.value.kind = "ToolUsingChat" /\ r.value.inner = wrapper
               ELSE r.value = wrapper

\* tools disabled tool use while spice_tools asked for it, and the ChatWrapper
\* came back unwrapped.
C9_Witness ==
    /\ IsSome(loaded)
    /\ params["tools"] = Some("disabled")
    /\ params["spice_tools"] = Some("auto")
    /\ Unwrap(loaded).ok
    /\ Unwrap(loaded).value.kind = "ChatWrapper"

\* tools was absent, spice_tools enabled tool use, and the orchestrator wraps the
\* ChatWrapper.
C9_WitnessWrapped ==
    /\ IsSome(loaded)
    /\ ~Present("tools")
    /\ params["spice_tools"] = Some("auto")
    /\ Unwrap(loaded).ok
    /\ Unwrap(loaded).value.kind = "ToolUsingChat"

----------------------------------------------------------------------------
(* impl Chat for ChatWrapper: chat_request and chat_stream, each call       *)
(* split where it awaits the inner adapter, and the stream chat_stream      *)
(* returns, polled by its consumer.                                        *)

MaxChunks == 2
CallIds == {1, 2}

\* What the inner adapter returns or yields: a response or chunk with the
\* adapter's own model identifier and with or without a usage record, or an
\* OpenAIError. An opened stream is an Ok that carries nothing.
Reply(usage) == [ok |-> TRUE, model |-> "internal", usage |-> usage, err |-> ""]
Failure(e) == [ok |-> FALSE, model |-> "", usage |-> FALSE, err |-> e]
Opened == [ok |-> TRUE, model |-> "", usage |-> FALSE, err |-> ""]
AdapterItems == {Reply(TRUE), Reply(FALSE), Failure("E1")}

\* request_labels(&req): the labels that bucket the call's metrics.
RequestLabels(r) == [model |-> r.model, stream |-> r.fields["stream"]]

\* handle_metrics(start.elapsed(), is_err, &labels) appends one record.
HandleMetrics(log, is_err, labels) == Append(log, [error |-> is_err, labels |-> labels])

\* A map_ok that leaves the adapter's model identifier in place.
RenameItemSkipped(w, item) == item

\* r.model.clone_from(&public_name) under map_ok: only an Ok item is rewritten.
RenameItem(w, item) == IF item.ok THEN [item EXCEPT !.model = w.public_name] ELSE item

\* An inspect that records metrics for every Ok chunk, with or without usage.
InspectItemEveryChunk(log, item, labels) ==
    IF item.ok THEN HandleMetrics(log, FALSE, labels) ELSE log

\* The closure given to inspect: metrics are recorded for an Ok item that
\* carries usage, and for nothing else.
InspectItem(log, item, labels) ==
    IF item.ok /\ item.usage THEN HandleMetrics(log, FALSE, labels) ELSE log

IdleCall ==
    [op |-> "none", pc |-> "idle", req |-> None, sent |-> None, reply |-> None,
     result |-> None, log |-> None, pulled |-> <<>>, delivered |-> <<>>]

CallRequests ==
    {Request(<<[role |-> "user", content |-> "hi"]>>,
             [NoFields EXCEPT !["stream"] = s, !["stream_options"] = o]) :
        <<s, o>> \in {None, Some(JTrue), Some(JFalse)} \X {None, Some(JOptsF)}}

CallWrappers ==
    {Wrapper(Some("P"), d) : d \in {<<>>, <<Default("stream", JTrue)>>}}

\* A chat_request whose prepare_req takes the system prompt out of the wrapper
\* instead of cloning it.
ChatRequestCallTaking(c) ==
    /\ calls[c].pc = "idle"
    /\ \E r \in CallRequests :
          calls' = [calls EXCEPT ![c] =
                      [@ EXCEPT !.op = "chat_request", !.pc = "adapter",
                                !.req = Some(r), !.sent = Some(PrepareReq(self, r))]]
    /\ self' = [self EXCEPT !.system_prompt = None]
    /\ UNCHANGED <<metrics, req, prepared, loadVars>>

\* chat_request up to the await of self.chat.chat_request(req).
ChatRequestCall(c) ==
    /\ calls[c].pc = "idle"
    /\ \E r \in CallRequests :
          calls' = [calls EXCEPT ![c] =
                      [@ EXCEPT !.op = "chat_request", !.pc = "adapter",
                                !.req = Some(r), !.sent = Some(PrepareReq(self, r))]]
    /\ UNCHANGED <<metrics, self, req, prepared, loadVars>>

\* A chat_request in which a failure to serialize the output fails the call.
ChatRequestResultFailingOnLog(w, answer, serOk) ==
    IF answer.ok /\ ~serOk THEN Failure("SerializeError") ELSE RenameItem(w, answer)

\* The value of `result` in chat_request: the adapter's response under the
\* public name, or the adapter's error as it came. serOk is the outcome of
\* serde_json::to_string(&captured_output), which neither arm lets reach resp.
ChatRequestResult(w, answer, serOk) ==
    IF answer.ok THEN RenameItem(w, answer) ELSE answer

\* The line chat_request logs about an Ok response's output.
CapturedOutput(answer, serOk) ==
    IF ~answer.ok THEN None
    ELSE IF serOk THEN Some("captured_output")
    ELSE Some("Failed to serialize truncated output")

\* chat_request from the adapter's answer to the return.
ChatRequestReturn(c) ==
    /\ calls[c].op = "chat_request"
    /\ calls[c].pc = "adapter"
    /\ \E answer \in AdapterItems, serOk \in BOOLEAN :
          LET labels == RequestLabels(Unwrap(calls[c].sent))
              result == ChatRequestResult(self, answer, serOk)
          IN  /\ calls' = [calls EXCEPT ![c] =
                            [@ EXCEPT !.pc = "returned", !.reply = Some(answer),
                                      !.result = Some(result),
                                      !.log = CapturedOutput(answer, serOk)]]
              /\ metrics' = [metrics EXCEPT ![c] = HandleMetrics(@, ~result.ok, labels)]
    /\ UNCHANGED <<self, req, prepared, loadVars>>

\* chat_stream up to the await of self.chat.chat_stream(req).
ChatStreamCall(c) ==
    /\ calls[c].pc = "idle"
    /\ \E r \in CallRequests :
          calls' = [calls EXCEPT ![c] =
                      [@ EXCEPT !.op = "chat_stream", !.pc = "adapter",
                                !.req = Some(r), !.sent = Some(PrepareReq(self, r))]]
    /\ UNCHANGED <<metrics, self, req, prepared, loadVars>>

\* chat_stream from the adapter's answer to the return: the wrapped stream, or
\* the adapter's error after one failure record.
ChatStreamReturn(c) ==
    /\ calls[c].op = "chat_stream"
    /\ calls[c].pc = "adapter"
    /\ \E answer \in {Opened, Failure("E1")} :
          LET labels == RequestLabels(Unwrap(calls[c].sent))
          IN  IF answer.ok
              THEN /\ calls' = [calls EXCEPT ![c] =
                                 [@ EXCEPT !.pc = "streaming", !.reply = Some(answer),
                                           !.result = Some(answer)]]
                   /\ UNCHANGED metrics
              ELSE /\ calls' = [calls EXCEPT ![c] =
                                 [@ EXCEPT !.pc = "returned", !.reply = Some(answer),
                                           !.result = Some(answer)]]
                   /\ metrics' = [metrics EXCEPT ![c] = HandleMetrics(@, TRUE, labels)]
    /\ UNCHANGED <<self, req, prepared, loadVars>>

\* A returned stream that reads one item ahead: each poll pulls an item from
\* the adapter and yields the one pulled by the poll before.
StreamNextReadAhead(c) ==
    /\ calls[c].pc = "streaming"
    /\ Len(calls[c].pulled) < MaxChunks
    /\ \E item \in AdapterItems :
          LET labels == RequestLabels(Unwrap(calls[c].sent))
              n == Len(calls[c].pulled)
          IN  IF n = 0
              THEN /\ calls' = [calls EXCEPT ![c] = [@ EXCEPT !.pulled = Append(@, item)]]
                   /\ UNCHANGED metrics
              ELSE LET out == RenameItem(self, calls[c].pulled[n])
                   IN  /\ calls' = [calls EXCEPT ![c] =
                                     [@ EXCEPT !.pulled = Append(@, item),
                                               !.delivered = Append(@, out)]]
                       /\ metrics' = [metrics EXCEPT ![c] = InspectItem(@, out, labels)]
    /\ UNCHANGED <<self, req, prepared, loadVars>>

\* One poll of the returned stream that yields an item: the adapter's stream is
\* polled once, map_ok renames the item, inspect records metrics when the item
\* is Ok and carries usage, and the item goes to the consumer.
StreamNext(c) ==
    /\ calls[c].pc = "streaming"
    /\ Len(calls[c].pulled) < MaxChunks
    /\ \E item \in AdapterItems :
          LET labels == RequestLabels(Unwrap(calls[c].sent))
              out == RenameItem(self, item)
          IN  /\ calls' = [calls EXCEPT ![c] =
                            [@ EXCEPT !.pulled = Append(@, item),
                                      !.delivered = Append(@, out)]]
              /\ metrics' = [metrics EXCEPT ![c] = InspectItem(@, out, labels)]
    /\ UNCHANGED <<self, req, prepared, loadVars>>

\* One poll of the returned stream that finds the adapter's stream finished.
StreamEnd(c) ==
    /\ calls[c].pc = "streaming"
    /\ calls' = [calls EXCEPT ![c] = [@ EXCEPT !.pc = "ended"]]
    /\ UNCHANGED <<metrics, self, req, prepared, loadVars>>

\* The consumer drops the returned stream, and with it the adapter's.
StreamDrop(c) ==
    /\ calls[c].pc = "streaming"
    /\ calls' = [calls EXCEPT ![c] = [@ EXCEPT !.pc = "dropped"]]
    /\ UNCHANGED <<metrics, self, req, prepared, loadVars>>

Next ==
    \E c \in CallIds :
        \/ ChatRequestCall(c)
        \/ ChatRequestReturn(c)
        \/ ChatStreamCall(c)
        \/ ChatStreamReturn(c)
        \/ StreamNext(c)
        \/ StreamEnd(c)
        \/ StreamDrop(c)

Init ==
    /\ self \in CallWrappers
    /\ req = None
    /\ prepared = None
    /\ LoadIdle
    /\ calls = [c \in CallIds |-> IdleCall]
    /\ metrics = [c \in CallIds |-> <<>>]

Spec == Init /\ [][Next]_vars

----------------------------------------------------------------------------
(* Claims about chat_request and chat_stream.                              *)

\* C4: every successful response chat_request returns and every successful
\* chunk the stream of chat_stream delivers reports the wrapper's public_name
\* as its model, whatever identifier the adapter put there, and is otherwise
\* what the adapter produced.
C4_PublicNameReported ==
    \A c \in CallIds :
        /\ (calls[c].op = "chat_request" /\ IsSome(calls[c].result)
                /\ Unwrap(calls[c].result).ok) =>
              Unwrap(calls[c].result) =
                  [Unwrap(calls[c].reply) EXCEPT !.model = self.public_name]
        /\ calls[c].op = "chat_stream" =>
              /\ Len(calls[c].delivered) = Len(calls[c].pulled)
              /\ \A i \in DOMAIN calls[c].delivered :
                    calls[c].delivered[i].ok =>
                        calls[c].delivered[i] =
                            [calls[c].pulled[i] EXCEPT !.model = self.public_name]

\* One call returned a successful response and the other delivered two
\* successful chunks, all of which the adapter had labelled with its own
\* identifier.
C4_Witness ==
    \E c, d \in CallIds :
        /\ calls[c].op = "chat_request"
        /\ IsSome(calls[c].result)
        /\ Unwrap(calls[c].reply).ok
        /\ Unwrap(calls[c].reply).model # self.public_name
        /\ calls[d].op = "chat_stream"
        /\ Len(calls[d].delivered) = 2
        /\ \A i \in 1..2 : /\ calls[d].pulled[i].ok
                           /\ calls[d].pulled[i].model # self.public_name

\* The chunks with usage that call c's consumer has received.
UsageChunks(c) ==
    {i \in DOMAIN calls[c].delivered :
        calls[c].delivered[i].ok /\ calls[c].delivered[i].usage}

\* C10: for a chat_stream call whose stream was opened, the metrics records of
\* the call are, at every moment, one success record per chunk with usage that
\* the consumer has received, so none when no chunk carried usage; for a call
\* whose stream the adapter failed to open they are exactly one failure record,
\* and the call returned the adapter's error unchanged.
C10_StreamMetrics ==
    \A c \in CallIds :
        calls[c].op = "chat_stream" =>
            IF ~IsSome(calls[c].reply) THEN metrics[c] = <<>>
            ELSE LET labels == RequestLabels(Unwrap(calls[c].sent))
                 IN  IF Unwrap(calls[c].reply).ok
                     THEN /\ Len(metrics[c]) = Cardinality(UsageChunks(c))
                          /\ \A i \in DOMAIN metrics[c] :
                                metrics[c][i] = [error |-> FALSE, labels |-> labels]
                     ELSE /\ metrics[c] = <<[error |-> TRUE, labels |-> labels]>>
                          /\ calls[c].result = calls[c].reply
                          /\ calls[c].delivered = <<>>

\* One stream ended after an error item and one chunk with usage, with one
\* success record; the other call's stream could not be opened.
C10_Witness ==
    \E c, d \in CallIds :
        /\ calls[c].op = "chat_stream"
        /\ calls[c].pc = "ended"
        /\ Len(calls[c].delivered) = 2
        /\ ~calls[c].delivered[1].ok
        /\ UsageChunks(c) = {2}
        /\ Len(metrics[c]) = 1
        /\ calls[d].op = "chat_stream"
        /\ calls[d].pc = "returned"
        /\ ~Unwrap(calls[d].result).ok

\* A stream ended with chunks but none with usage, and nothing was recorded.
C10_WitnessNoUsage ==
    \E c \in CallIds :
        /\ calls[c].op = "chat_stream"
        /\ calls[c].pc = "ended"
        /\ Len(calls[c].delivered) = 2
        /\ UsageChunks(c) = {}
        /\ metrics[c] = <<>>

\* C11: a chat_request call that has reached the adapter has no metrics record
\* while the adapter is working and exactly one once it has returned, with the
\* labels of the prepared request and an error flag that is true exactly when
\* the adapter answered with an error; on failure the caller gets the adapter's
\* error itself, and the call succeeds whenever the adapter did, also when the
\* output could not be serialized for the log.
C11_RequestMetrics ==
    \A c \in CallIds :
        calls[c].op = "chat_request" =>
            IF calls[c].pc = "adapter" THEN metrics[c] = <<>>
            ELSE LET answer == Unwrap(calls[c].reply)
                     result == Unwrap(calls[c].result)
                 IN  /\ calls[c].pc = "returned"
                     /\ metrics[c] =
                           <<[error |-> ~answer.ok,
                              labels |-> RequestLabels(Unwrap(calls[c].sent))]>>
                     /\ ~answer.ok => result = answer
                     /\ answer.ok => result.ok

\* One call returned the adapter's error and the other a response whose output
\* could not be serialized for the log.
C11_Witness ==
    \E c, d \in CallIds :
        /\ calls[c].op = "chat_request"
        /\ calls[c].pc = "returned"
        /\ ~Unwrap(calls[c].reply).ok
        /\ calls[d].op = "chat_request"
        /\ calls[d].pc = "returned"
        /\ Unwrap(calls[d].reply).ok
        /\ calls[d].log = Some("Failed to serialize truncated output")

\* What call c holds is what the call would hold had it run alone: the request
\* it sent is prepare_req of its own request under the wrapper, what it returned
\* or delivered is its own adapter's answer or items under the public name, and
\* its metrics records carry the labels of its own prepared request.
C12_OwnOutcome(c) ==
    /\ IsSome(calls[c].sent) =>
          calls[c].sent = Some(PrepareReq(self, Unwrap(calls[c].req)))
    /\ (calls[c].op = "chat_request" /\ IsSome(calls[c].result)) =>
          LET answer == Unwrap(calls[c].reply)
          IN  Unwrap(calls[c].result) =
                  IF answer.ok THEN [answer EXCEPT !.model = self.public_name]
                  ELSE answer
    /\ calls[c].delivered =
          [i \in DOMAIN calls[c].pulled |->
              IF calls[c].pulled[i].ok
              THEN [calls[c].pulled[i] EXCEPT !.model = self.public_name]
              ELSE calls[c].pulled[i]]
    /\ \A i \in DOMAIN metrics[c] :
          metrics[c][i].labels = RequestLabels(Unwrap(calls[c].sent))

\* A step of one call leaves the wrapper and every other call as they were.
C12_StepOfOneCall ==
    /\ self' = self
    /\ \A c \in CallIds :
          (calls'[c] # calls[c] \/ metrics'[c] # metrics[c]) =>
              \A d \in CallIds \ {c} :
                  calls'[d] = calls[d] /\ metrics'[d] = metrics[d]

\* C12: under every interleaving of chat_request and chat_stream calls on one
\* wrapper, public_name, system_prompt and defaults never change, no step of
\* one call changes another call's request, result or metrics, and each call's
\* prepared request, response or chunks and metrics labels are those it would
\* have had alone.
C12_CallsIndependent ==
    /\ [](\A c \in CallIds : C12_OwnOutcome(c))
    /\ [][C12_StepOfOneCall]_vars

\* A chat_request waits on the adapter while a chat_stream on the same wrapper,
\* made with a different request, has delivered a chunk and recorded metrics.
C12_Witness ==
    \E c, d \in CallIds :
        /\ calls[c].op = "chat_request"
        /\ calls[c].pc = "adapter"
        /\ calls[d].op = "chat_stream"
        /\ calls[d].pc = "streaming"
        /\ Len(calls[d].delivered) = 1
        /\ Len(metrics[d]) = 1
        /\ calls[c].req # calls[d].req
        /\ calls[c].sent # calls[d].sent

\* The consumer of call c's stream has received every item pulled from the
\* adapter so far, in the adapter's order: an error item as it came, an Ok item
\* with nothing but its model changed.
C13_Forwarded(c) ==
    /\ Len(calls[c].delivered) = Len(calls[c].pulled)
    /\ \A i \in DOMAIN calls[c].pulled :
          LET item == calls[c].pulled[i]
              out == calls[c].delivered[i]
          IN  /\ out.ok = item.ok
              /\ out.usage = item.usage
              /\ out.err = item.err
              /\ ~item.ok => out = item

\* A step pulls at most one item from call c's adapter, only while the
\* consumer is still polling the stream, and hands the consumer that item in
\* the same poll; what was pulled and delivered before stays as it was.
C13_OnePull(c) ==
    calls'[c].pulled # calls[c].pulled =>
        /\ calls[c].pc = "streaming"
        /\ Len(calls'[c].pulled) = Len(calls[c].pulled) + 1
        /\ SubSeq(calls'[c].pulled, 1, Len(calls[c].pulled)) = calls[c].pulled
        /\ Len(calls'[c].delivered) = Len(calls[c].delivered) + 1
        /\ SubSeq(calls'[c].delivered, 1, Len(calls[c].delivered)) = calls[c].delivered

\* C13: the stream chat_stream returns gives the consumer exactly the
\* adapter's items, in order, none dropped, duplicated or added and errors as
\* errors; each item is delivered in the poll that pulled it, so before the
\* next is pulled, and nothing is pulled once the consumer has dropped the
\* stream or the stream has ended.
C13_ItemByItem ==
    /\ [](\A c \in CallIds : C13_Forwarded(c))
    /\ [][\A c \in CallIds : C13_OnePull(c)]_vars

\* One consumer dropped its stream after the first of the items, an error, and
\* the other read two items, the second an error, up to the end of the stream.
C13_Witness ==
    \E c, d \in CallIds :
        /\ calls[c].pc = "dropped"
        /\ Len(calls[c].pulled) = 1
        /\ calls[c].delivered = <<Failure("E1")>>
        /\ calls[d].pc = "ended"
        /\ Len(calls[d].pulled) = 2
        /\ calls[d].delivered[1].ok
        /\ ~calls[d].delivered[2].ok

\* What backfill leaves in field f of the request call c was made with.
C14_Backfilled(c, f) ==
    LET r == Unwrap(calls[c].req)
    IN  IF IsSome(r.fields[f]) THEN r.fields[f]
        ELSE IF UsableDefaultsFor(f) = {} THEN None
        ELSE Some(self.defaults[Min(UsableDefaultsFor(f))].value)

\* C14 as stated: every request chat_stream hands to the adapter has
\* stream_options.include_usage = true, whether the caller set the stream flag
\* to true, to false or not at all.
C14_Original ==
    \A c \in CallIds :
        (calls[c].op = "chat_stream" /\ IsSome(calls[c].sent)) =>
            LET p == Unwrap(calls[c].sent)
            IN  /\ IsSome(p.fields["stream_options"])
                /\ Unwrap(p.fields["stream_options"]).v = "true"

\* C14 amended: a request chat_stream hands to the adapter has
\* stream_options.include_usage = true when its stream flag is true after
\* backfill; when the flag is false or unset, chat_stream hands on
\* stream_options as backfill left it, the caller's include_usage = false or
\* no stream_options at all included.
C14_UsageForcedWhenStreamTrue ==
    \A c \in CallIds :
        (calls[c].op = "chat_stream" /\ IsSome(calls[c].sent)) =>
            LET p == Unwrap(calls[c].sent)
            IN  /\ p.fields["stream"] = C14_Backfilled(c, "stream")
                /\ IF p.fields["stream"] = Some(JTrue)
                   THEN /\ IsSome(p.fields["stream_options"])
                        /\ Unwrap(p.fields["stream_options"]).v = "true"
                   ELSE p.fields["stream_options"] = C14_Backfilled(c, "stream_options")

\* One chat_stream call with the stream flag unset reached the adapter with the
\* caller's include_usage = false, and another with the flag true and the same
\* stream_options reached it with include_usage = true.
C14_Witness ==
    \E c, d \in CallIds :
        /\ calls[c].op = "chat_stream"
        /\ calls[c].pc = "adapter"
        /\ Unwrap(calls[c].req).fields["stream_options"] = Some(JOptsF)
        /\ Unwrap(calls[c].sent).fields["stream"] = None
        /\ Unwrap(calls[c].sent).fields["stream_options"] = Some(JOptsF)
        /\ calls[d].op = "chat_stream"
        /\ calls[d].pc = "adapter"
        /\ Unwrap(calls[d].req).fields["stream"] = Some(JTrue)
        /\ Unwrap(calls[d].req).fields["stream_options"] = Some(JOptsF)
        /\ Unwrap(calls[d].sent).fields["stream_options"] = Some(JOptsT)

====
